---- MODULE Spec2Model ----
(***************************************************************************)
(* Model of analysis_tools_cython.pyx: the light-curve resampler           *)
(* (calculate_timestep, clean_data), the Lomb-Scargle denoiser             *)
(* (lombscargle_filter and the module-level model object), the windowed    *)
(* test statistic (test_statistic_array) and interpret.                    *)
(*                                                                         *)
(* Arithmetic is exact: times and input fluxes are integers, quotients are *)
(* rationals [n, d] in lowest terms.  Rounding of IEEE floating point is   *)
(* not modelled.  Python's 0-based arrays are kept 0-based where the code  *)
(* indexes them (flux, t_test); lists built by append are sequences.       *)
(***************************************************************************)
EXTENDS Integers, Sequences, FiniteSets, TLC

VARIABLES
    \* clean_data / calculate_timestep
    table,        \* the input table: a sequence of rows <<time, flux>>
    cpc,          \* position in clean_data: "start", "loop", "done", "raised"
    timestep,     \* local timestep of clean_data (line 57)
    row,          \* index (1-based) of the next row of `for row in table`
    t, x, r,      \* the lists t, x, r of clean_data
    cexc,         \* the exception that left clean_data, or "none"
    \* test_statistic_array
    flux,             \* the argument flux, indexed 0..N-1
    max_half_width,   \* the argument max_half_width (the local n)
    cdivision,        \* the build's cdivision directive (line 143 divides C doubles)
    sigma,            \* flux.std(), kept as the integer N^2 * variance: 0 iff the std is 0
    norm_factor,      \* the local norm_factor, symbolic (see NormFactor)
    mu,               \* the running sum
    loop_m, loop_i,   \* the loop variables m and i
    t_test,           \* the matrix t_test, indexed [0..n-1][0..N-1]
    spc,              \* position: "start", "outer", "inner", "done", "raised"
    sexc,             \* the exception that left test_statistic_array, or "none"
    \* lombscargle_filter; the invocations are 1 and 2, each variable but model
    \* is indexed by the invocation
    model,        \* the module-level LombScargleFast object (line 10), shared
    time,         \* the argument time
    ls_flux,      \* the argument flux, updated in place
    real,         \* the argument real
    min_score,    \* the argument min_score
    iter,         \* passes of `for _ in range(30)` begun so far
    lpc,          \* position: "off", "start", "fit", "score", "predict", "done"
    lend,         \* how the loop ended: "none", "converged", "exhausted", "fit_failed"
    lexc,         \* the exception that reached the caller, or "none"
    flux0,        \* observation: the flux array as passed in
    subs,         \* observation: the number of subtractions `flux -= ...` done
    last_score,   \* observation: the score of the latest pass
    below,        \* observation: the number of passes whose score was below min_score
    \* interpret
    params,       \* the argument params = <<A1, mu1, sigma1, A2, mu2, sigma2>> as fitted
    labels,       \* the locals A1, mu1, sigma1, A2, mu2, sigma2 after relabeling
    height_ratio, \* the local height_ratio
    separation,   \* the local separation
    ipc           \* position: "idle", "start", "done"

cleanVars == <<table, cpc, timestep, row, t, x, r, cexc>>
statVars == <<flux, max_half_width, cdivision, sigma, norm_factor, mu, loop_m, loop_i,
              t_test, spc, sexc>>

lsVars == <<model, time, ls_flux, real, min_score, iter, lpc, lend, lexc, flux0, subs,
            last_score, below>>

interpVars == <<params, labels, height_ratio, separation, ipc>>

vars == <<cleanVars, statVars, lsVars, interpVars>>
notClean == <<statVars, lsVars, interpVars>>
notStat == <<cleanVars, lsVars, interpVars>>
notLS == <<cleanVars, statVars, interpVars>>
notInterp == <<cleanVars, statVars, lsVars>>

----------------------------------------------------------------------------
\* Bounds of the model.
MaxTime == 6       \* times of the input table are drawn from 0..MaxTime
MaxRows == 4       \* the input table has at most MaxRows rows
MaxN == 6          \* the flux array of test_statistic_array has 1..MaxN samples
MaxHalfWidth == 3  \* max_half_width is drawn from 1..MaxHalfWidth
MaxLSLen == 3      \* the arrays of lombscargle_filter have 2..MaxLSLen samples
MaxAmp == 2        \* fitted amplitudes are drawn from 0..MaxAmp
MaxMean == 2       \* fitted means are drawn from 0..MaxMean
MaxSigma == 2      \* fitted standard deviations are drawn from 1..MaxSigma

----------------------------------------------------------------------------
\* Exact rational arithmetic.
Abs(a) == IF a < 0 THEN -a ELSE a

RECURSIVE GCD(_, _)
GCD(a, b) == IF b = 0 THEN a ELSE GCD(b, a % b)

\* The rational n/d (d # 0) in lowest terms with a positive denominator.
Rat(n, d) ==
    LET g == GCD(Abs(n), Abs(d))
        s == IF d < 0 THEN -1 ELSE 1
    IN  [n |-> (s * n) \div g, d |-> (s * d) \div g]

RatInt(k) == [n |-> k, d |-> 1]
RatAdd(a, b) == Rat(a.n * b.d + b.n * a.d, a.d * b.d)
RatSub(a, b) == Rat(a.n * b.d - b.n * a.d, a.d * b.d)
RatDivInt(a, k) == Rat(a.n, a.d * k)

\* Python 3 round() of the quotient n/d, d > 0: nearest integer, ties to even.
RoundHalfEven(n, d) ==
    LET q == n \div d
        rem == n % d
    IN  IF 2 * rem < d THEN q
        ELSE IF 2 * rem > d THEN q + 1
        ELSE IF q % 2 = 0 THEN q ELSE q + 1

\* list.sort(): ascending insertion sort of a sequence of integers.
RECURSIVE Insert(_, _)
Insert(s, v) ==
    IF s = <<>> THEN <<v>>
    ELSE IF v <= Head(s) THEN <<v>> \o s
    ELSE <<Head(s)>> \o Insert(Tail(s), v)

RECURSIVE SortAsc(_)
SortAsc(s) == IF s = <<>> THEN <<>> ELSE Insert(SortAsc(Tail(s)), Head(s))

----------------------------------------------------------------------------
\* calculate_timestep (lines 40-46).

\* line 44: dt = [table[i+1][0] - table[i][0] for i in range(len(table)-1)]
TimeDiffs(tab) ==
    IF Len(tab) < 2 THEN <<>>
    ELSE [i \in 1..(Len(tab) - 1) |-> tab[i + 1][1] - tab[i][1]]

\* line 46: the index int(len(dt)/2), 0-based.
MedianIndexLow(L) == IF L = 0 THEN 0 ELSE (L - 1) \div 2
MedianIndex(L) == L \div 2

\* lines 44-46: the value returned, or the exception raised by dt[...] on an
\* empty list.
calculate_timestep(tab) ==
    LET dt == SortAsc(TimeDiffs(tab))
        k == MedianIndex(Len(dt))
    IN  IF k >= Len(dt)
        THEN [exc |-> "IndexError", val |-> 0]
        ELSE [exc |-> "none", val |-> dt[k + 1]]

----------------------------------------------------------------------------
\* clean_data (lines 49-77).

\* line 63: steps = int(round((ti - t[-1])/timestep))
StepsFloor(ti, tlast, ts) == (ti - tlast) \div ts
Steps(ti, tlast, ts) == RoundHalfEven(ti - tlast, ts)

\* lines 68-71: the lists after k more passes of `for _ in range(steps-1)`.
RECURSIVE Fill(_, _, _, _)
Fill(lists, k, ts, fluxstep) ==
    IF k <= 0 THEN lists
    ELSE Fill([t |-> Append(lists.t, ts + lists.t[Len(lists.t)]),
               x |-> Append(lists.x, RatAdd(fluxstep, lists.x[Len(lists.x)])),
               r |-> Append(lists.r, 0)],
              k - 1, ts, fluxstep)

\* lines 60-75: the body of `for row in table` for the row <<ti, xi>>.
RowBody(lists, ti, xi, ts) ==
    LET filled ==
            IF Len(lists.t) > 0
            THEN LET steps == Steps(ti, lists.t[Len(lists.t)], ts)
                 IN  IF steps > 1
                     THEN Fill(lists, steps - 1, ts,
                               RatDivInt(RatSub(RatInt(xi), lists.x[Len(lists.x)]), steps))
                     ELSE lists
            ELSE lists
    IN  [t |-> Append(filled.t, ti),
         x |-> Append(filled.x, RatInt(xi)),
         r |-> Append(filled.r, 1)]

\* Input tables: times strictly increasing (the table is a time series read
\* in time order), fluxes from a small set.
FluxVals == {0, 1}

RECURSIVE IncSeqs(_, _)
\* the strictly increasing sequences over lo..MaxTime of length at most k
IncSeqs(lo, k) ==
    IF k = 0 THEN {<<>>}
    ELSE {<<>>} \cup UNION { { <<v>> \o s : s \in IncSeqs(v + 1, k - 1) } : v \in lo..MaxTime }

Tables ==
    UNION { { [i \in 1..Len(ts) |-> <<ts[i], f[i]>>] : f \in [1..Len(ts) -> FluxVals] }
            : ts \in IncSeqs(0, MaxRows) }

CleanIdle ==
    /\ table = <<>>
    /\ cpc = "idle"
    /\ timestep = 0
    /\ row = 1
    /\ t = <<>>
    /\ x = <<>>
    /\ r = <<>>
    /\ cexc = "none"

CleanInit ==
    /\ table \in Tables
    /\ cpc = "start"
    /\ timestep = 0
    /\ row = 1
    /\ t = <<>>
    /\ x = <<>>
    /\ r = <<>>
    /\ cexc = "none"

\* line 57: timestep = calculate_timestep(table); an exception leaves clean_data.
CleanTimestep ==
    /\ cpc = "start"
    /\ LET res == calculate_timestep(table)
       IN  IF res.exc # "none"
           THEN /\ cpc' = "raised"
                /\ cexc' = res.exc
                /\ UNCHANGED timestep
           ELSE /\ cpc' = "loop"
                /\ timestep' = res.val
                /\ UNCHANGED cexc
    /\ UNCHANGED <<table, row, t, x, r>>
    /\ UNCHANGED notClean

\* lines 59-75: one pass of `for row in table`.
CleanRow ==
    /\ cpc = "loop"
    /\ row <= Len(table)
    /\ LET new == RowBody([t |-> t, x |-> x, r |-> r], table[row][1], table[row][2], timestep)
       IN  /\ t' = new.t
           /\ x' = new.x
           /\ r' = new.r
    /\ row' = row + 1
    /\ UNCHANGED <<table, cpc, timestep, cexc>>
    /\ UNCHANGED notClean

\* line 77: return np.array(t), np.array(x), np.array(r)
CleanReturn ==
    /\ cpc = "loop"
    /\ row > Len(table)
    /\ cpc' = "done"
    /\ UNCHANGED <<table, timestep, row, t, x, r, cexc>>
    /\ UNCHANGED notClean

CleanNext == CleanTimestep \/ CleanRow \/ CleanReturn

----------------------------------------------------------------------------
\* test_statistic_array (lines 131-154).

StatFluxVals == {-1, 0, 1}

RECURSIVE SumRange(_, _, _)
\* f[lo] + ... + f[hi]
SumRange(f, lo, hi) == IF lo > hi THEN 0 ELSE f[hi] + SumRange(f, lo, hi - 1)

Min(a, b) == IF a < b THEN a ELSE b

\* line 137: flux.std() is 0 exactly when N^2 * variance = N*sum(x^2) - sum(x)^2 is 0.
Std(f, N) ==
    N * SumRange([k \in 0..(N - 1) |-> f[k] * f[k]], 0, N - 1)
      - SumRange(f, 0, N - 1) * SumRange(f, 0, N - 1)

\* line 143: norm_factor = 1 / ((2*m)**0.5 * sigma).  The quotient is kept
\* symbolic: [twom |-> 2m, inf |-> FALSE] stands for the positive number
\* 1/(sqrt(2m)*sigma), sigma # 0.  With sigma = 0 the division of C doubles
\* raises ZeroDivisionError when the module is built with cdivision=False and
\* yields +inf when it is built with cdivision=True.
NormFactor(mm, sig, cdiv) ==
    IF sig # 0 THEN [exc |-> "none", val |-> [twom |-> 2 * mm, inf |-> FALSE]]
    ELSE IF cdiv THEN [exc |-> "none", val |-> [twom |-> 2 * mm, inf |-> TRUE]]
    ELSE [exc |-> "ZeroDivisionError", val |-> [twom |-> 0, inf |-> FALSE]]

\* mu * norm_factor, symbolic: coef times the factor nf (coef * inf is inf or nan).
Mul(coef, nf) == [coef |-> coef, nf |-> nf]

\* an entry of np.zeros
Zero == [coef |-> 0, nf |-> [twom |-> 0, inf |-> FALSE]]
IsZero(e) == e.coef = 0 /\ ~e.nf.inf
NonFinite(e) == e.nf.inf

\* line 145: flux[0:(2*m)].sum(); the slice stops at the end of the array.
SeedSum(f, N, mm) == SumRange(f, 0, Min(2 * mm, N) - 1)

\* line 151: flux[i+m-1] - flux[i-m-1]
SlideDeltaShifted(f, ii, mm) == f[ii + mm] - f[ii - mm]
SlideDelta(f, ii, mm) == f[ii + mm - 1] - f[ii - mm - 1]

\* line 148: range(m+1, N-m) has not run out
InnerGuard(ii, N, mm) == ii < N - mm

FluxLen == Cardinality(DOMAIN flux)

StatIdle ==
    /\ flux = <<>>
    /\ max_half_width = 0
    /\ cdivision = FALSE
    /\ sigma = 0
    /\ norm_factor = Zero.nf
    /\ mu = 0
    /\ loop_m = 0
    /\ loop_i = 0
    /\ t_test = <<>>
    /\ spc = "idle"
    /\ sexc = "none"

StatInit ==
    /\ \E N \in 1..MaxN : flux \in [0..(N - 1) -> StatFluxVals]
    /\ max_half_width \in 1..MaxHalfWidth
    /\ cdivision \in BOOLEAN
    /\ sigma = 0
    /\ norm_factor = Zero.nf
    /\ mu = 0
    /\ loop_m = 0
    /\ loop_i = 0
    /\ t_test = <<>>
    /\ spc = "start"
    /\ sexc = "none"

\* lines 132-141: sigma = flux.std(); t_test = np.zeros([n,N]); m starts at 1.
StatStart ==
    /\ spc = "start"
    /\ sigma' = Std(flux, FluxLen)
    /\ t_test' = [mm \in 0..(max_half_width - 1) |-> [ii \in 0..(FluxLen - 1) |-> Zero]]
    /\ loop_m' = 1
    /\ spc' = "outer"
    /\ UNCHANGED <<flux, max_half_width, cdivision, norm_factor, mu, loop_i, sexc>>
    /\ UNCHANGED notStat

\* lines 141-146: one pass of `for m in range(1,n)` up to the inner loop:
\* norm_factor, the seed of the running sum, the store t_test[m][m].
\* The store raises IndexError when m is no column of the matrix.
StatSeed ==
    /\ spc = "outer"
    /\ loop_m < max_half_width
    /\ LET nf == NormFactor(loop_m, sigma, cdivision)
           seed == SeedSum(flux, FluxLen, loop_m)
       IN  IF nf.exc # "none"
           THEN /\ spc' = "raised"
                /\ sexc' = nf.exc
                /\ UNCHANGED <<norm_factor, mu, t_test, loop_i>>
           ELSE IF loop_m >= FluxLen
           THEN /\ spc' = "raised"
                /\ sexc' = "IndexError"
                /\ norm_factor' = nf.val
                /\ mu' = seed
                /\ UNCHANGED <<t_test, loop_i>>
           ELSE /\ norm_factor' = nf.val
                /\ mu' = seed
                /\ t_test' = [t_test EXCEPT ![loop_m][loop_m] = Mul(seed, nf.val)]
                /\ loop_i' = loop_m + 1
                /\ spc' = "inner"
                /\ UNCHANGED sexc
    /\ UNCHANGED <<flux, max_half_width, cdivision, sigma, loop_m>>
    /\ UNCHANGED notStat

\* lines 148-152: one pass of `for i in range(m+1,N-m)`.
StatSlide ==
    /\ spc = "inner"
    /\ InnerGuard(loop_i, FluxLen, loop_m)
    /\ LET sum == mu + SlideDelta(flux, loop_i, loop_m)
       IN  /\ mu' = sum
           /\ t_test' = [t_test EXCEPT ![loop_m][loop_i] = Mul(sum, norm_factor)]
    /\ loop_i' = loop_i + 1
    /\ UNCHANGED <<flux, max_half_width, cdivision, sigma, norm_factor, loop_m, spc, sexc>>
    /\ UNCHANGED notStat

\* line 148 -> 141: the inner range is exhausted, next m.
StatNextM ==
    /\ spc = "inner"
    /\ ~InnerGuard(loop_i, FluxLen, loop_m)
    /\ loop_m' = loop_m + 1
    /\ spc' = "outer"
    /\ UNCHANGED <<flux, max_half_width, cdivision, sigma, norm_factor, mu, loop_i, t_test, sexc>>
    /\ UNCHANGED notStat

\* line 154: return t_test
StatReturn ==
    /\ spc = "outer"
    /\ loop_m >= max_half_width
    /\ spc' = "done"
    /\ UNCHANGED <<flux, max_half_width, cdivision, sigma, norm_factor, mu, loop_m, loop_i,
                   t_test, sexc>>
    /\ UNCHANGED notStat

StatNext == StatStart \/ StatSeed \/ StatSlide \/ StatNextM \/ StatReturn

----------------------------------------------------------------------------
\* lombscargle_filter (lines 108-128) and the module-level model (line 10).
\* The periodogram library is external: a call of fit, score or predict
\* either raises or returns, the score returned is any of Scores, and the
\* prediction is a value per time point.

Invocations == {1, 2}

\* line 119: range(30)
MaxIter == 30

Scores == {0, 1}
MinScores == {1}

\* a[mask == 1]
RECURSIVE Masked(_, _)
Masked(a, mask) ==
    IF a = <<>> THEN <<>>
    ELSE (IF Head(mask) = 1 THEN <<Head(a)>> ELSE <<>>) \o Masked(Tail(a), Tail(mask))

\* lines 112-115: the period range (N/(2*period), period), period = time[-1]-time[0]
PeriodRange(tm) ==
    LET period == tm[Len(tm)] - tm[1]
    IN  <<Rat(Len(tm), 2 * period), period>>

\* line 10: the model as constructed, no period range set, nothing fitted
NoRange == <<RatInt(0), 0>>
NoFit == [owner |-> 0, pass |-> 0, range |-> NoRange, t |-> <<>>, y |-> <<>>]
NewModel == [period_range |-> NoRange, quiet |-> FALSE, fit |-> NoFit]

\* model.fit(time_real, flux_real) by invocation p in its pass k: the fit
\* searches the period range the optimizer holds at that moment.
Fit(mdl, p, k, tr, fr) ==
    [mdl EXCEPT !.fit = [owner |-> p, pass |-> k, range |-> mdl.period_range,
                         t |-> tr, y |-> fr]]

\* model.predict(time): one value per time point, real or interpolated
Predict(mdl, tm) == [k \in 1..Len(tm) |-> 1 + tm[k]]

\* line 126: flux -= model.predict(time)
Subtract(fl, pred) == [k \in 1..Len(fl) |-> fl[k] - pred[k]]

\* line 123: if model.score(model.best_period) < min_score: break
ScoreStops(score, ms) == score < ms

\* lines 118, 127-128: the try encloses the whole loop and `except: pass`
\* swallows the exception: where control goes and what reaches the caller.
AfterExceptionRetry(exc) == [pc |-> "fit", exc |-> "none"]
AfterException(exc) == [pc |-> "done", exc |-> "none"]

\* line 119: the range of the loop has not run out
LoopGuardOneMore(k) == k <= MaxIter
LoopGuard(k) == k < MaxIter

\* the arrays of one call: uniformly spaced times (the output of clean_data),
\* first and last sample real
LSInputs ==
    UNION { { [time |-> [k \in 1..N |-> ts * (k - 1)], real |-> rl, flux |-> fl] :
                rl \in {m \in [1..N -> {0, 1}] : m[1] = 1 /\ m[N] = 1},
                fl \in [1..N -> {0, 1}] }
            : <<N, ts>> \in (2..MaxLSLen) \X {1, 2} }

LSIdle ==
    /\ model = NewModel
    /\ time = [p \in Invocations |-> <<>>]
    /\ ls_flux = [p \in Invocations |-> <<>>]
    /\ real = [p \in Invocations |-> <<>>]
    /\ min_score = [p \in Invocations |-> 0]
    /\ iter = [p \in Invocations |-> 0]
    /\ lpc = [p \in Invocations |-> "off"]
    /\ lend = [p \in Invocations |-> "none"]
    /\ lexc = [p \in Invocations |-> "none"]
    /\ flux0 = [p \in Invocations |-> <<>>]
    /\ subs = [p \in Invocations |-> 0]
    /\ last_score = [p \in Invocations |-> 0]
    /\ below = [p \in Invocations |-> 0]

\* the calls in `active` are about to start, each on its own arrays
LSInit(active, inputs) ==
    /\ model = NewModel
    /\ time = [p \in Invocations |-> IF p \in active THEN inputs[p].time ELSE <<>>]
    /\ ls_flux = [p \in Invocations |-> IF p \in active THEN inputs[p].flux ELSE <<>>]
    /\ real = [p \in Invocations |-> IF p \in active THEN inputs[p].real ELSE <<>>]
    /\ \E ms \in MinScores : min_score = [p \in Invocations |-> IF p \in active THEN ms ELSE 0]
    /\ iter = [p \in Invocations |-> 0]
    /\ lpc = [p \in Invocations |-> IF p \in active THEN "start" ELSE "off"]
    /\ lend = [p \in Invocations |-> "none"]
    /\ lexc = [p \in Invocations |-> "none"]
    /\ flux0 = ls_flux
    /\ subs = [p \in Invocations |-> 0]
    /\ last_score = [p \in Invocations |-> 0]
    /\ below = [p \in Invocations |-> 0]

\* an exception raised inside the try (lines 118-128)
Raise(p, exc) ==
    LET after == AfterException(exc)
    IN  /\ lpc' = [lpc EXCEPT ![p] = after.pc]
        /\ lexc' = [lexc EXCEPT ![p] = after.exc]
        /\ lend' = [lend EXCEPT ![p] = "fit_failed"]

\* lines 110-116: time_real, the period range and the quiet flag written to
\* the shared model
LSSetup(p) ==
    /\ lpc[p] = "start"
    /\ model' = [model EXCEPT !.period_range = PeriodRange(time[p]), !.quiet = TRUE]
    /\ lpc' = [lpc EXCEPT ![p] = "fit"]
    /\ UNCHANGED <<time, ls_flux, real, min_score, iter, lend, lexc, flux0, subs,
                   last_score, below>>
    /\ UNCHANGED notLS

\* lines 119-121: a pass of the loop begins: flux_real, model.fit
LSFit(p) ==
    /\ lpc[p] = "fit"
    /\ LoopGuard(iter[p])
    /\ iter' = [iter EXCEPT ![p] = iter[p] + 1]
    /\ \E ok \in BOOLEAN :
          IF ok
          THEN /\ model' = Fit(model, p, iter[p] + 1, Masked(time[p], real[p]),
                               Masked(ls_flux[p], real[p]))
               /\ lpc' = [lpc EXCEPT ![p] = "score"]
               /\ UNCHANGED <<lend, lexc>>
          ELSE /\ Raise(p, "FitError")
               /\ UNCHANGED model
    /\ UNCHANGED <<time, ls_flux, real, min_score, flux0, subs, last_score, below>>
    /\ UNCHANGED notLS

\* line 119: the range is exhausted, the loop and the function end
LSExhausted(p) ==
    /\ lpc[p] = "fit"
    /\ ~LoopGuard(iter[p])
    /\ lpc' = [lpc EXCEPT ![p] = "done"]
    /\ lend' = [lend EXCEPT ![p] = "exhausted"]
    /\ UNCHANGED <<model, time, ls_flux, real, min_score, iter, lexc, flux0, subs,
                   last_score, below>>
    /\ UNCHANGED notLS

\* lines 123-124: the score at the best period is tested; break when below
LSScore(p) ==
    /\ lpc[p] = "score"
    /\ \E ok \in BOOLEAN :
          IF ok
          THEN \E score \in Scores :
                  /\ last_score' = [last_score EXCEPT ![p] = score]
                  /\ below' = [below EXCEPT ![p] =
                                  IF score < min_score[p] THEN below[p] + 1 ELSE below[p]]
                  /\ IF ScoreStops(score, min_score[p])
                     THEN /\ lpc' = [lpc EXCEPT ![p] = "done"]
                          /\ lend' = [lend EXCEPT ![p] = "converged"]
                     ELSE /\ lpc' = [lpc EXCEPT ![p] = "predict"]
                          /\ UNCHANGED lend
                  /\ UNCHANGED lexc
          ELSE /\ Raise(p, "ScoreError")
               /\ UNCHANGED <<last_score, below>>
    /\ UNCHANGED <<model, time, ls_flux, real, min_score, iter, flux0, subs>>
    /\ UNCHANGED notLS

\* line 126: flux -= model.predict(time)
LSPredict(p) ==
    /\ lpc[p] = "predict"
    /\ \E ok \in BOOLEAN :
          IF ok
          THEN /\ ls_flux' = [ls_flux EXCEPT ![p] =
                                 Subtract(ls_flux[p], Predict(model, time[p]))]
               /\ subs' = [subs EXCEPT ![p] = subs[p] + 1]
               /\ lpc' = [lpc EXCEPT ![p] = "fit"]
               /\ UNCHANGED <<lend, lexc>>
          ELSE /\ Raise(p, "PredictError")
               /\ UNCHANGED <<ls_flux, subs>>
    /\ UNCHANGED <<model, time, real, min_score, iter, flux0, last_score, below>>
    /\ UNCHANGED notLS

LSNext ==
    \E p \in Invocations :
        LSSetup(p) \/ LSFit(p) \/ LSExhausted(p) \/ LSScore(p) \/ LSPredict(p)

----------------------------------------------------------------------------
\* interpret (lines 210-220).

Sign(a) == IF a > 0 THEN 1 ELSE IF a < 0 THEN -1 ELSE 0

\* a / b of numpy floats: the rational in lowest terms; a nonzero number over
\* zero is +-inf ([n |-> +-1, d |-> 0]) and 0/0 is nan ([n |-> 0, d |-> 0]).
Quot(a, b) == IF b = 0 THEN [n |-> Sign(a), d |-> 0] ELSE Rat(a, b)

\* line 212: params[0] > params[3]
KeepsOrderIfSmaller(a, b) == a < b
KeepsOrder(a, b) == a > b

\* lines 212-215: the six locals after the relabeling
Relabel(ps) ==
    IF KeepsOrder(ps[1], ps[4])
    THEN [A1 |-> ps[1], mu1 |-> ps[2], sigma1 |-> ps[3],
          A2 |-> ps[4], mu2 |-> ps[5], sigma2 |-> ps[6]]
    ELSE [A2 |-> ps[1], mu2 |-> ps[2], sigma2 |-> ps[3],
          A1 |-> ps[4], mu1 |-> ps[5], sigma1 |-> ps[6]]

\* lines 210-220; params holds numpy floats as returned by curve_fit
interpret(ps) ==
    LET l == Relabel(ps)
    IN  [labels |-> l,
         height_ratio |-> Quot(l.A2, l.A1),
         separation |-> Quot(l.mu2 - l.mu1, l.sigma1)]

\* a fitted component: amplitude >= 0, standard deviation > 0
Components == (0..MaxAmp) \X (0..MaxMean) \X (1..MaxSigma)

NoLabels == [A1 |-> 0, mu1 |-> 0, sigma1 |-> 0, A2 |-> 0, mu2 |-> 0, sigma2 |-> 0]

InterpIdle ==
    /\ params = <<>>
    /\ labels = NoLabels
    /\ height_ratio = RatInt(0)
    /\ separation = RatInt(0)
    /\ ipc = "idle"

InterpInit ==
    /\ \E c1 \in Components, c2 \in Components : params = c1 \o c2
    /\ labels = NoLabels
    /\ height_ratio = RatInt(0)
    /\ separation = RatInt(0)
    /\ ipc = "start"

\* lines 210-220: the call interpret(params)
Interpret ==
    /\ ipc = "start"
    /\ LET res == interpret(params)
       IN  /\ labels' = res.labels
           /\ height_ratio' = res.height_ratio
           /\ separation' = res.separation
    /\ ipc' = "done"
    /\ UNCHANGED params
    /\ UNCHANGED notInterp

InterpNext == Interpret

----------------------------------------------------------------------------
\* Specifications, one per component.

InitClean == CleanInit /\ StatIdle /\ LSIdle /\ InterpIdle
SpecClean == InitClean /\ [][CleanNext]_vars

InitStat == StatInit /\ CleanIdle /\ LSIdle /\ InterpIdle
SpecStat == InitStat /\ [][StatNext]_vars

\* one call of lombscargle_filter
InitLS ==
    /\ \E inp \in LSInputs : LSInit({1}, [p \in Invocations |-> inp])
    /\ CleanIdle /\ StatIdle /\ InterpIdle
SpecLS == InitLS /\ [][LSNext]_vars

\* a call runs to its end: every library call returns or raises
SpecLSFair == SpecLS /\ WF_vars(LSNext)

\* two calls of lombscargle_filter on series of different time spans, their
\* statements interleaved (two threads of one interpreter share the module)
ConcInputs ==
    (1 :> [time |-> <<0, 1, 2>>, real |-> <<1, 0, 1>>, flux |-> <<0, 1, 0>>]) @@
    (2 :> [time |-> <<0, 2, 4>>, real |-> <<1, 1, 1>>, flux |-> <<1, 0, 1>>])
InitLSConc ==
    /\ LSInit({1, 2}, ConcInputs)
    /\ CleanIdle /\ StatIdle /\ InterpIdle
SpecLSConc == InitLSConc /\ [][LSNext]_vars

InitInterp == InterpInit /\ CleanIdle /\ StatIdle /\ LSIdle
SpecInterp == InitInterp /\ [][InterpNext]_vars

----------------------------------------------------------------------------
\* Properties of calculate_timestep and clean_data.

Times(tab) == [i \in 1..Len(tab) |-> tab[i][1]]

\* v is the element at 0-based index k of the ascending arrangement of s,
\* stated by counting and not by sorting.
AtSortedIndex(s, k, v) ==
    /\ \E i \in 1..Len(s) : s[i] = v
    /\ Cardinality({i \in 1..Len(s) : s[i] < v}) <= k
    /\ Cardinality({i \in 1..Len(s) : s[i] <= v}) > k

\* C4 as stated: for every series of at least 2 samples the timestep is the
\* element of the sorted difference array at the middle index (odd length) and
\* at the LOWER-middle index (even length), index floor((L-1)/2), L the length
\* of the difference array.
C4_LowerMiddle ==
    (cpc \in {"loop", "done"} /\ Len(table) >= 2) =>
        AtSortedIndex(TimeDiffs(table), (Len(table) - 2) \div 2, timestep)

\* C4 amended: for every series of at least 2 samples the timestep is the
\* element of the sorted difference array at index floor(L/2): the middle index
\* for an odd length L and the UPPER-middle index for an even one; no exception
\* is raised.
C4_UpperMiddle ==
    (cpc # "start" /\ Len(table) >= 2) =>
        /\ cpc \in {"loop", "done"}
        /\ cexc = "none"
        /\ AtSortedIndex(TimeDiffs(table), (Len(table) - 1) \div 2, timestep)

\* An even-length difference array whose two middle elements differ, and the
\* timestep is the larger of them.
C4_Witness ==
    /\ cpc = "loop"
    /\ Len(table) = 3
    /\ table[2][1] - table[1][1] < table[3][1] - table[2][1]
    /\ timestep = table[3][1] - table[2][1]

\* The closed form of the output of clean_data.
StepsOf(tab, k, ts) == RoundHalfEven(tab[k + 1][1] - tab[k][1], ts)
Extra(tab, k, ts) == IF StepsOf(tab, k, ts) > 1 THEN StepsOf(tab, k, ts) - 1 ELSE 0

RECURSIVE Pos(_, _, _)
\* the position in the output of the k-th input row
Pos(tab, k, ts) == IF k = 1 THEN 1 ELSE Pos(tab, k - 1, ts) + 1 + Extra(tab, k - 1, ts)

\* C3: when clean_data returns, every input row appears in order flagged real;
\* between consecutive rows k and k+1 with steps = round((t_next - t_prev)/timestep)
\* there are exactly steps-1 points when steps > 1 and none otherwise; the j-th
\* of them has time t_prev + j*timestep, flux x_prev + j*(x_next - x_prev)/steps
\* and is flagged not real.  A uniformly spaced input is returned unchanged
\* with all points real; a single gap of 3*timestep among gaps of one
\* timestep yields exactly 2 synthetic points.
C3_Resample ==
    cpc = "done" =>
        LET n == Len(table)
            ts == timestep
        IN  /\ Len(t) = Pos(table, n, ts)
            /\ Len(x) = Len(t)
            /\ Len(r) = Len(t)
            /\ \A k \in 1..n :
                  LET p == Pos(table, k, ts)
                  IN  /\ t[p] = table[k][1]
                      /\ x[p] = RatInt(table[k][2])
                      /\ r[p] = 1
            /\ \A k \in 1..(n - 1) :
                  LET p == Pos(table, k, ts)
                      steps == StepsOf(table, k, ts)
                  IN  /\ Pos(table, k + 1, ts) - p - 1 = (IF steps > 1 THEN steps - 1 ELSE 0)
                      /\ \A j \in 1..(Pos(table, k + 1, ts) - p - 1) :
                            /\ t[p + j] = table[k][1] + j * ts
                            /\ x[p + j] = Rat(table[k][2] * steps
                                               + j * (table[k + 1][2] - table[k][2]), steps)
                            /\ r[p + j] = 0
            /\ (\A k \in 1..(n - 1) : table[k + 1][1] - table[k][1] = ts) =>
                  /\ t = Times(table)
                  /\ x = [i \in 1..n |-> RatInt(table[i][2])]
                  /\ r = [i \in 1..n |-> 1]
            /\ (/\ Cardinality({k \in 1..(n - 1) : table[k + 1][1] - table[k][1] = 3 * ts}) = 1
                /\ \A k \in 1..(n - 1) : table[k + 1][1] - table[k][1] \in {ts, 3 * ts}) =>
                  /\ Len(t) = n + 2
                  /\ Cardinality({i \in 1..Len(r) : r[i] = 0}) = 2

\* clean_data has returned on an input with one gap of 3 timesteps and a
\* change of flux across it: two synthetic points with fractional flux.
C3_Witness ==
    /\ cpc = "done"
    /\ \E k \in 1..(Len(table) - 1) :
          /\ table[k + 1][1] - table[k][1] = 3 * timestep
          /\ table[k + 1][2] # table[k][2]
    /\ Cardinality({i \in 1..Len(r) : r[i] = 0}) = 2
    /\ \E i \in 1..Len(x) : x[i].d = 3

\* C7: on a table of length 0 or 1 clean_data (through calculate_timestep)
\* signals a distinguishable "insufficient data" error and returns nothing.
C7_InsufficientData ==
    (Len(table) < 2 /\ cpc # "start") =>
        /\ cpc = "raised"
        /\ cexc = "InsufficientData"

----------------------------------------------------------------------------
\* Properties of test_statistic_array.

\* the domain of the statistic: m in [1, max_half_width), i in [m, N-m)
InDomain(mm, ii) ==
    /\ 1 <= mm /\ mm < max_half_width
    /\ mm <= ii /\ ii < FluxLen - mm

\* the entry [mm][ii] of the domain has been stored
Stored(mm, ii) ==
    /\ InDomain(mm, ii)
    /\ \/ spc = "done"
       \/ spc \in {"outer", "inner", "raised"} /\ mm < loop_m
       \/ spc = "inner" /\ mm = loop_m /\ ii < loop_i

\* the direct sum of the 2m samples flux[i-m .. i+m-1]
WindowSum(mm, ii) == SumRange(flux, ii - mm, ii + mm - 1)

\* C1: for every half-width m and centre i of the domain, the running sum held
\* when t_test[m][i] is stored is the direct sum of flux[i-m .. i+m-1], and the
\* entry stored is that sum times norm_factor(m) = 1/(sqrt(2m)*sigma).
C1_RunningSum ==
    /\ (spc = "inner" /\ InDomain(loop_m, loop_i - 1)) =>
          /\ mu = WindowSum(loop_m, loop_i - 1)
          /\ norm_factor = [twom |-> 2 * loop_m, inf |-> sigma = 0]
    /\ \A mm \in 1..(max_half_width - 1) : \A ii \in 0..(FluxLen - 1) :
          Stored(mm, ii) =>
              t_test[mm][ii] = Mul(WindowSum(mm, ii), [twom |-> 2 * mm, inf |-> sigma = 0])

\* The matrix is returned after the window of half-width 2 has slid over a
\* change of the sum.
C1_Witness ==
    /\ spc = "done"
    /\ max_half_width = 3
    /\ FluxLen >= 6
    /\ sigma # 0
    /\ t_test[2][3].coef # t_test[2][2].coef
    /\ t_test[1][4].coef # t_test[1][3].coef

\* C2: in the matrix returned, every entry outside the domain is zero, rows
\* with 2m >= N (empty domain) included.  Stated for the flux arrays of
\* nonzero standard deviation, where norm_factor is an ordinary number.
C2_ZeroOutsideDomain ==
    (spc = "done" /\ sigma # 0) =>
        \A mm \in 0..(max_half_width - 1) : \A ii \in 0..(FluxLen - 1) :
            ~InDomain(mm, ii) => IsZero(t_test[mm][ii])

\* C8: on a flux array of standard deviation 0 with max_half_width >= 2 the
\* function signals a degenerate-numeric error before norm_factor is computed:
\* it neither divides by zero nor returns a matrix holding NaN or Inf.
C8_SigmaGuard ==
    (Std(flux, FluxLen) = 0 /\ max_half_width >= 2 /\ spc \in {"done", "raised"}) =>
        /\ spc = "raised"
        /\ sexc = "DegenerateNumericError"
        /\ \A mm \in DOMAIN t_test : \A ii \in DOMAIN t_test[mm] : ~NonFinite(t_test[mm][ii])

----------------------------------------------------------------------------
\* Properties of lombscargle_filter.

Started == {p \in Invocations : lpc[p] # "off"}

\* the flux array is the array passed in minus one prediction per subtraction
FluxIsPartial(p) ==
    ls_flux[p] = [k \in 1..Len(flux0[p]) |->
                     flux0[p][k] - subs[p] * Predict(model, time[p])[k]]

\* C5, the loop invariant: at most 30 passes and 30 subtractions, the fit of a
\* pass precedes its score test, a pass subtracts only after a score that is
\* not below min_score, and a pass with a score below it is the last.
C5_Loop ==
    \A p \in Started :
        /\ iter[p] <= MaxIter
        /\ subs[p] <= MaxIter
        /\ FluxIsPartial(p)
        /\ lpc[p] = "fit" => subs[p] = iter[p]
        /\ lpc[p] = "score" =>
              /\ model.fit.owner = p /\ model.fit.pass = iter[p]
              /\ subs[p] = iter[p] - 1
        /\ lpc[p] = "predict" =>
              /\ last_score[p] >= min_score[p]
              /\ subs[p] = iter[p] - 1
        /\ lend[p] = "converged" =>
              /\ lpc[p] = "done"
              /\ last_score[p] < min_score[p]
              /\ subs[p] = iter[p] - 1
        /\ below[p] = (IF lend[p] = "converged" THEN 1 ELSE 0)
        /\ lend[p] = "exhausted" => (lpc[p] = "done" /\ iter[p] = MaxIter /\ subs[p] = MaxIter)
        /\ lpc[p] = "done" <=> lend[p] # "none"

\* C5: the loop ends after at most 30 passes; in each pass the model is fitted
\* before the score is tested; the loop stops at the first pass whose score is
\* below min_score, without subtracting in that pass; every earlier pass
\* subtracted the prediction from the whole flux array exactly once, so the
\* subtractions are as many as the passes before the stop and never more than 30.
C5_Terminates == [](C5_Loop) /\ <>(\A p \in Started : lpc[p] = "done")

\* The loop ran out of passes: 30 fits, 30 subtractions.
C5_Witness ==
    /\ lpc[1] = "done"
    /\ lend[1] = "exhausted"
    /\ subs[1] = MaxIter
    /\ iter[1] = MaxIter
    /\ ls_flux[1] # flux0[1]

\* C6: when fit, score or predict of a pass fails, the loop ends at once, no
\* exception reaches the caller, no further fit is attempted, and the flux
\* array is the original minus the predictions of the passes completed before
\* the failure.
C6_FitFailed ==
    \A p \in Started :
        /\ lexc[p] = "none"
        /\ lend[p] = "fit_failed" =>
              /\ lpc[p] = "done"
              /\ ~ENABLED LSFit(p)
              /\ iter[p] >= 1
              /\ subs[p] = iter[p] - 1
              /\ FluxIsPartial(p)

\* A pass failed after two passes had subtracted their predictions.
C6_Witness ==
    /\ lend[1] = "fit_failed"
    /\ lpc[1] = "done"
    /\ iter[1] = 3
    /\ subs[1] = 2
    /\ ls_flux[1] # flux0[1]

\* C10: when two invocations interleave, every fit of an invocation uses the
\* period range computed from its own time array, and the fitted state an
\* invocation scores and predicts with is its own.
C10_OwnModel ==
    \A p \in Started :
        lpc[p] \in {"score", "predict"} =>
            /\ model.fit.owner = p
            /\ model.fit.range = PeriodRange(time[p])

----------------------------------------------------------------------------
\* Properties of interpret.

\* the two fitted components passed in the other order
Swapped(ps) == <<ps[4], ps[5], ps[6], ps[1], ps[2], ps[3]>>

Result == [height_ratio |-> height_ratio, separation |-> separation]
ResultOf(ps) ==
    [height_ratio |-> interpret(ps).height_ratio, separation |-> interpret(ps).separation]

\* the locals computed from are the two components passed in, in either order
IsRelabeling ==
    LET c1 == <<labels.A1, labels.mu1, labels.sigma1>>
        c2 == <<labels.A2, labels.mu2, labels.sigma2>>
    IN  c1 \o c2 \in {params, Swapped(params)}

\* C9 as stated: for every parameter tuple, after the relabeling A1 > A2, the
\* result is A2/A1 and (mu2-mu1)/sigma1 of the relabeled values, and it is the
\* same whichever order the two components are passed in.
C9_StrictlyLarger ==
    ipc = "done" =>
        /\ IsRelabeling
        /\ labels.A1 > labels.A2
        /\ height_ratio = Quot(labels.A2, labels.A1)
        /\ separation = Quot(labels.mu2 - labels.mu1, labels.sigma1)
        /\ Result = ResultOf(Swapped(params))

\* C9 amended: for every parameter tuple, after the relabeling A1 >= A2, with
\* A1 > A2 when the two amplitudes differ; the result is A2/A1 and
\* (mu2-mu1)/sigma1 of the relabeled values; when the two amplitudes differ the
\* result is the same whichever order the two components are passed in (with
\* equal amplitudes the component passed second becomes component 1).
C9_LargerOrEqual ==
    ipc = "done" =>
        /\ IsRelabeling
        /\ labels.A1 >= labels.A2
        /\ height_ratio = Quot(labels.A2, labels.A1)
        /\ separation = Quot(labels.mu2 - labels.mu1, labels.sigma1)
        /\ params[1] # params[4] =>
              /\ labels.A1 > labels.A2
              /\ Result = ResultOf(Swapped(params))
        /\ params[1] = params[4] =>
              <<labels.A1, labels.mu1, labels.sigma1>> = <<params[4], params[5], params[6]>>

\* The component passed second has the larger amplitude and is relabeled
\* component 1; the separation is negative and fractional.
C9_Witness ==
    /\ ipc = "done"
    /\ params[1] < params[4]
    /\ labels.A1 = params[4]
    /\ labels.mu1 > labels.mu2
    /\ separation.n < 0
    /\ separation.d = 2
    /\ height_ratio.d = 2

====
